---------------------------- MODULE Spec2Model ----------------------------
(***************************************************************************)
(* dam2stix: DAMInput.generate_stix_files (src/objects.py) and the         *)
(* interpolator z_at, as a state machine.                                  *)
(*                                                                         *)
(* Numbers are exact rationals [n, d] (d > 0, lowest terms), so that the   *)
(* interpolation, the ground offset 0.1 and the comparisons of the code    *)
(* are computed, not abstracted.  Points are <<x, z>> pairs of rationals,  *)
(* as the code's [x, z] lists.                                             *)
(***************************************************************************)
EXTENDS Integers, Sequences, FiniteSets, TLC

VARIABLES
    dam,                \* the DAMInput object (the Record Store), read-only
    pc,                 \* position in generate_stix_files / z_at call
    idx,                \* 1-based index of the combination being processed
    exception,          \* the uncaught exception that ended the batch, or "none"
    loc,                \* the loop's local variables holding looked-up records
    lookup_failed,      \* indices of the combinations whose try block logged an error
    errlog,             \* logging.error messages, in order
    logs,               \* the <name>.log files written, in write order
    area_file,          \* lines of areas.csv
    limited_area_file,  \* lines of limited_areas.csv
    stix,               \* the <name>.stix files written, in write order
    levee,              \* local: the engine's geometry handle of this scenario
    pl_points,          \* local: the seed polyline
    final_pl_points,    \* local: the final control list
    preclamp,           \* local: final_pl_points as built by lines 703-718
    areas,              \* local: raw totals of this scenario
    limited_areas,      \* local: limited totals of this scenario
    zq                  \* a z_at call: [x, points, result]

vars == <<dam, pc, idx, exception, loc, lookup_failed, errlog, logs, area_file,
          limited_area_file, stix, levee, pl_points, final_pl_points, preclamp,
          areas, limited_areas, zq>>

-----------------------------------------------------------------------------
(* Exact rational arithmetic (the code's floats).                          *)

Abs(k) == IF k < 0 THEN -k ELSE k

RECURSIVE GCD(_, _)
GCD(a, b) == IF b = 0 THEN a ELSE GCD(b, a % b)

Rat(n, d) ==
    LET s == IF d < 0 THEN -1 ELSE 1
        g == GCD(Abs(n), Abs(d))
    IN  [n |-> (s * n) \div g, d |-> (s * d) \div g]

I(k) == [n |-> k, d |-> 1]

RAdd(a, b) == Rat(a.n * b.d + b.n * a.d, a.d * b.d)
RSub(a, b) == Rat(a.n * b.d - b.n * a.d, a.d * b.d)
RMul(a, b) == Rat(a.n * b.n, a.d * b.d)
RDiv(a, b) == Rat(a.n * b.d, a.d * b.n)
RLe(a, b) == a.n * b.d <= b.n * a.d
RLt(a, b) == a.n * b.d < b.n * a.d
RMin(a, b) == IF RLe(a, b) THEN a ELSE b

X(p) == p[1]
Z(p) == p[2]

\* Python's None and a raised ZeroDivisionError, as results of a call
None == [tag |-> "None"]
ZeroDivisionError == [tag |-> "ZeroDivisionError"]
Some(v) == [tag |-> "Some", v |-> v]
IsSome(r) == r.tag = "Some"

-----------------------------------------------------------------------------
(* z_at (src/objects.py:34-42)                                             *)

\* a faulty variant: the segment's end elevation instead of the interpolation
InterpolateEnd(x, p1, p2) == Z(p2)

\* line 40: p1[1] + (x - p1[0]) / (p2[0] - p1[0]) * (p2[1] - p1[1])
Interpolate(x, p1, p2) ==
    RAdd(Z(p1), RMul(RDiv(RSub(x, X(p1)), RSub(X(p2), X(p1))), RSub(Z(p2), Z(p1))))

\* lines 39-40 for the segment ending at index i (1-based), i >= 2
ZAtSegmentMatches(x, points, i) ==
    RLe(X(points[i - 1]), x) /\ RLe(x, X(points[i]))

\* the loop of lines 35-42 from segment i on
RECURSIVE ZAtFrom(_, _, _)
ZAtFrom(x, points, i) ==
    IF i > Len(points) THEN None
    ELSE IF ZAtSegmentMatches(x, points, i)
         THEN IF X(points[i]) = X(points[i - 1])
              THEN ZeroDivisionError
              ELSE Some(Interpolate(x, points[i - 1], points[i]))
         ELSE ZAtFrom(x, points, i + 1)

z_at(x, points) == ZAtFrom(x, points, 2)

-----------------------------------------------------------------------------
(* Program constants (src/objects.py:22-31)                                *)

X_UNDEFINED == -9999
Z_OFFSET_BUITENKRUIN == I(0)
Z_PHREATIC_OFFSET_MAAIVELD == Rat(1, 10)

\* a local variable of generate_stix_files that no assignment has reached
Unbound == [unbound |-> TRUE]

\* the result of a call: a returned value or a raised exception
Return(v) == [ok |-> TRUE, v |-> v]
Raise(kind, what, id) == [ok |-> FALSE, err |-> [exc |-> kind, what |-> what, id |-> id]]

Min(S) == CHOOSE m \in S : \A k \in S : m <= k
Max(S) == CHOOSE m \in S : \A k \in S : m >= k

-----------------------------------------------------------------------------
(* SurfaceLine (src/objects.py:129-171)                                    *)

\* SurfaceLinePoint.as_2d with start_point None: (x, z)
as_2d(p) == <<I(p.x), I(p.z)>>

has_berm(sl) == sl.x_insteek_binnenberm # X_UNDEFINED
has_sloot(sl) == sl.x_insteek_sloot_dijkzijde # X_UNDEFINED

-----------------------------------------------------------------------------
(* Record Store lookups (src/objects.py:427-479): first record whose key   *)
(* equals the id, else ValueError.                                         *)

FirstMatch(records, key, id) ==
    LET hits == {i \in DOMAIN records : records[i][key] = id}
    IN  IF hits = {} THEN None ELSE Some(records[Min(hits)])

\* shown is what the message of the ValueError formats
Lookup(records, key, id, what, shown) ==
    LET r == FirstMatch(records, key, id)
    IN  IF IsSome(r) THEN Return(r.v) ELSE Raise("ValueError", what, shown)

get_soilprofile(id) == Lookup(dam.soilprofiles, "id", id, "grondopbouw", id)

get_surfaceline(id) == Lookup(dam.surfacelines, "id", id, "dwarsprofiel", id)

\* line 446 formats the builtin `id`, not surfaceline_id, into the message
get_slope_layer(surfaceline_id) ==
    Lookup(dam.slopelayers, "surfaceline_id", surfaceline_id,
           "slopelayer", "<built-in function id>")

get_polderpeilen(location_id) ==
    Lookup(dam.polderpeilen, "location_id", location_id, "polderpeilen", location_id)

get_location(surfaceline_id) ==
    Lookup(dam.locations, "surfaceline_id", surfaceline_id, "location", surfaceline_id)

get_toetspeilen(location_id) ==
    Lookup(dam.toetspeilen, "location_id", location_id, "toetspeilen", location_id)

get_stijghoogte(location_id) ==
    Lookup(dam.stijghoogtes, "location_id", location_id, "stijghoogte", location_id)

\* the try block of lines 501-513: each assignment happens when its call
\* returns; the first raise leaves the remaining variables as they were
TryBlock(c, l) ==
    LET r1 == get_soilprofile(c.soilprofile_id_crest) IN
    IF ~r1.ok THEN [loc |-> l, err |-> Some(r1.err)] ELSE
    LET l1 == [l EXCEPT !.crest_soilprofile = r1.v]
        r2 == get_soilprofile(c.soilprofile_id_toe) IN
    IF ~r2.ok THEN [loc |-> l1, err |-> Some(r2.err)] ELSE
    LET l2 == [l1 EXCEPT !.polder_soilprofile = r2.v]
        r3 == get_surfaceline(c.surfaceline_id) IN
    IF ~r3.ok THEN [loc |-> l2, err |-> Some(r3.err)] ELSE
    LET l3 == [l2 EXCEPT !.surfaceline = r3.v]
        r4 == get_slope_layer(c.surfaceline_id) IN
    IF ~r4.ok THEN [loc |-> l3, err |-> Some(r4.err)] ELSE
    LET l4 == [l3 EXCEPT !.slope_layer = r4.v]
        r5 == get_location(l4.surfaceline.id) IN
    IF ~r5.ok THEN [loc |-> l4, err |-> Some(r5.err)] ELSE
    LET l5 == [l4 EXCEPT !.location = r5.v]
        r6 == get_polderpeilen(l5.location.id) IN
    IF ~r6.ok THEN [loc |-> l5, err |-> Some(r6.err)] ELSE
    LET l6 == [l5 EXCEPT !.polderpeilen = r6.v]
        r7 == get_toetspeilen(l6.location.id) IN
    IF ~r7.ok THEN [loc |-> l6, err |-> Some(r7.err)] ELSE
    LET l7 == [l6 EXCEPT !.toetspeil = r7.v]
        r8 == get_stijghoogte(l7.location.id) IN
    IF ~r8.ok THEN [loc |-> l7, err |-> Some(r8.err)] ELSE
    [loc |-> [l7 EXCEPT !.stijghoogte = r8.v], err |-> None]

\* the locals before the first iteration: nothing is assigned yet
NoLocals ==
    [crest_soilprofile |-> Unbound, polder_soilprofile |-> Unbound,
     surfaceline |-> Unbound, slope_layer |-> Unbound, location |-> Unbound,
     polderpeilen |-> Unbound, toetspeil |-> Unbound, stijghoogte |-> Unbound]

-----------------------------------------------------------------------------
(* The geometry engine the code calls (leveelogic: Levee, Crosssection),   *)
(* as far as generate_stix_files reads it.  The surface is the cross       *)
(* section's polyline; soil polygons are sets of unit cells <<i, j>>       *)
(* (the square [i, i+1] x [j, j+1]) of an integer grid.                    *)

Floor(r) == r.n \div r.d

SeqToSet(s) == {s[i] : i \in DOMAIN s}

\* line 614-616: the cross section's points, p.as_2d() of every point
Crosssection(surfaceline) ==
    [i \in DOMAIN surfaceline.points |-> as_2d(surfaceline.points[i])]

\* levee.z_at(x): the surface elevation at x (lines 664, 671, 682, 709)
LeveeZAt(lv, x) == z_at(x, lv.surface)

\* the grid column [i, i+1] is filled up to the lower surface end
ColumnTop(surface, i) ==
    LET a == z_at(I(i), surface)
        b == z_at(I(i + 1), surface)
    IN  Floor(RMin(a.v, b.v))

Columns(surface) == Floor(X(surface[1])) .. (Floor(X(surface[Len(surface)])) - 1)

ColumnTops(surface) == [i \in Columns(surface) |-> ColumnTop(surface, i)]

ProfileTop(layers) == Max({layers[k].top : k \in DOMAIN layers})
ProfileBottom(layers) == Min({layers[k].bottom : k \in DOMAIN layers})

\* the cells of one profile layer under the surface, in the given columns
LayerCells(tops, cols, layer) ==
    UNION {{<<i, j>> : j \in layer.bottom .. (Min({layer.top, tops[i]}) - 1)} : i \in cols}

\* the cells between the top of the profile and the surface (the fill soil)
FillCells(tops, cols, layers) ==
    UNION {{<<i, j>> : j \in ProfileTop(layers) .. (tops[i] - 1)} : i \in cols}

SidePolygons(tops, cols, layers, fill_soilcode) ==
    [k \in DOMAIN layers |->
        [soilcode |-> layers[k].soil_name, cells |-> LayerCells(tops, cols, layers[k])]]
    \o <<[soilcode |-> fill_soilcode, cells |-> FillCells(tops, cols, layers)]>>

NonEmpty(pg) == pg.cells # {}

\* Levee.from_soilprofiles (lines 618-625)
from_soilprofiles(profile_waterside, profile_landside, crosssection, x_landside, fill_soilcode) ==
    LET tops == ColumnTops(crosssection)
        wcols == {i \in DOMAIN tops : i < x_landside}
        lcols == {i \in DOMAIN tops : i >= x_landside}
    IN  [surface |-> crosssection,
         left |-> X(crosssection[1]),
         right |-> X(crosssection[Len(crosssection)]),
         top |-> Max({Floor(Z(crosssection[k])) : k \in DOMAIN crosssection}),
         bottom |-> Min({ProfileBottom(profile_waterside), ProfileBottom(profile_landside)}),
         soilpolygons |->
             SelectSeq(SidePolygons(tops, wcols, profile_waterside, fill_soilcode)
                       \o SidePolygons(tops, lcols, profile_landside, fill_soilcode),
                       NonEmpty),
         phreatic_line |-> <<>>]

\* levee.add_toplayer (lines 627-633): the top `height` of the soil between
\* x_start and x_end becomes a polygon of its own
add_toplayer(lv, x_start, x_end, height, soilcode) ==
    LET tops == ColumnTops(lv.surface)
        cols == {i \in DOMAIN tops : x_start <= i /\ i < x_end}
        soil == UNION {lv.soilpolygons[k].cells : k \in DOMAIN lv.soilpolygons}
        top == soil \cap UNION {{<<i, j>> : j \in (tops[i] - height) .. (tops[i] - 1)} : i \in cols}
        cut == [k \in DOMAIN lv.soilpolygons |->
                   [lv.soilpolygons[k] EXCEPT !.cells = @ \ top]]
    IN  [lv EXCEPT !.soilpolygons =
            SelectSeq(cut \o <<[soilcode |-> soilcode, cells |-> top]>>, NonEmpty)]

\* polyline_polyline_intersections of the horizontal query line at `level`
\* from x = x1 to x = x2 with the surface, ordered along the surface
SegmentCrossings(a, b, level) ==
    IF Z(a) = level /\ Z(b) = level THEN <<X(a), X(b)>>
    ELSE IF (RLe(Z(a), level) /\ RLe(level, Z(b))) \/ (RLe(Z(b), level) /\ RLe(level, Z(a)))
         THEN <<RAdd(X(a), RMul(RDiv(RSub(level, Z(a)), RSub(Z(b), Z(a))), RSub(X(b), X(a))))>>
         ELSE <<>>

RECURSIVE Dedup(_)
Dedup(s) ==
    IF Len(s) <= 1 THEN s
    ELSE IF s[1] = s[2] THEN Dedup(Tail(s)) ELSE <<s[1]>> \o Dedup(Tail(s))

RECURSIVE CrossingsFrom(_, _, _)
CrossingsFrom(surface, level, i) ==
    IF i > Len(surface) THEN <<>>
    ELSE SegmentCrossings(surface[i - 1], surface[i], level)
         \o CrossingsFrom(surface, level, i + 1)

get_surface_intersections(lv, p, q) ==
    LET InRange(x) == RLe(X(p), x) /\ RLe(x, X(q))
        xs == Dedup(SelectSeq(CrossingsFrom(lv.surface, Z(p), 2), InRange))
    IN  [k \in DOMAIN xs |-> <<xs[k], Z(p)>>]

-----------------------------------------------------------------------------
(* Phreatic line: seed points (src/objects.py:635-685)                     *)

\* levee.z_at(x) - Z_PHREATIC_OFFSET_MAAIVELD
GroundMinusOffset(lv, x) == RSub(LeveeZAt(lv, x).v, Z_PHREATIC_OFFSET_MAAIVELD)

\* line 646: the first intersection's x
P2OfIntersections(intersections, peil) == <<X(intersections[1]), peil>>

\* a faulty variant: the guard of line 652 never fires
P3BelowP4Never(p3, p4) == FALSE

\* lines 652-656: P3 lower than P4 raises
P3BelowP4(p3, p4) == RLt(Z(p3), Z(p4))

\* lines 658-666
P5Of(lv, sl) ==
    IF sl.x_insteek_binnenberm = X_UNDEFINED THEN <<>>
    ELSE <<I(sl.x_insteek_binnenberm), GroundMinusOffset(lv, I(sl.x_insteek_binnenberm))>>

\* a faulty variant: the ditch points on the maximum polder level (the comment of line 674)
P7OfMaxPeil(sl, pp) ==
    IF has_sloot(sl) THEN <<I(sl.x_insteek_sloot_dijkzijde), I(pp.max_peil)>> ELSE <<>>

\* lines 677-682
P7Of(sl, pp) ==
    IF has_sloot(sl) THEN <<I(sl.x_insteek_sloot_dijkzijde), I(pp.min_peil)>> ELSE <<>>

P8Of(lv, sl, pp) ==
    IF has_sloot(sl) THEN <<lv.right, I(pp.min_peil)>>
    ELSE <<lv.right, GroundMinusOffset(lv, lv.right)>>

NonEmptyPoint(p) == Len(p) # 0

\* the surface elevations the seed points read (lines 664, 671, 682)
SeedGroundXs(lv, sl) ==
    (IF sl.x_insteek_binnenberm = X_UNDEFINED THEN {} ELSE {I(sl.x_insteek_binnenberm)})
    \cup {I(sl.x_binnenteen)}
    \cup (IF has_sloot(sl) THEN {} ELSE {lv.right})

\* lines 635-685: the seed polyline, or the exception raised on the way
SeedPolyline(lv, sl, tp, pp) ==
    LET peil == I(tp.peil)
        p1 == <<lv.left, peil>>
        intersections == get_surface_intersections(lv, p1, <<I(sl.x_buitenkruin), peil>>)
    IN  IF Len(intersections) = 0 THEN Raise("ValueError", "snijpunt", "") ELSE
        LET p2 == P2OfIntersections(intersections, peil)
            p3 == <<I(sl.x_buitenkruin), RSub(Z(p2), Z_OFFSET_BUITENKRUIN)>>
            p4 == <<I(sl.x_binnenkruin), RSub(Z(p2), I(tp.verschil))>>
        IN  IF P3BelowP4(p3, p4) THEN Raise("ValueError", "p3p4", "") ELSE
            IF \E x \in SeedGroundXs(lv, sl) : ~IsSome(LeveeZAt(lv, x))
            THEN Raise("TypeError", "maaiveld", "") ELSE
            LET p5 == P5Of(lv, sl)
                p6 == <<I(sl.x_binnenteen), GroundMinusOffset(lv, I(sl.x_binnenteen))>>
                p7 == P7Of(sl, pp)
                p8 == P8Of(lv, sl, pp)
            IN  Return(SelectSeq(<<p1, p2, p3, p4, p5, p6, p7, p8>>, NonEmptyPoint))

-----------------------------------------------------------------------------
(* Phreatic line: resampling (src/objects.py:687-718)                      *)

\* lines 687-690
InnerLimit(sl) ==
    IF sl.x_insteek_binnenberm # X_UNDEFINED
    THEN I(sl.x_insteek_binnenberm) ELSE I(sl.x_binnenkruin)

\* lines 692-695
OuterLimit(lv, sl) ==
    IF has_sloot(sl) THEN I(sl.x_insteek_sloot_dijkzijde) ELSE lv.right

\* a faulty variant: the interval is closed on the left as well
InIntervalClosed(x, xl, xr) == RLe(xl, x) /\ RLe(x, xr)

\* lines 697-698: p[0] > xl and p[0] <= xr
InInterval(x, xl, xr) == RLt(xl, x) /\ RLe(x, xr)

\* sorted(list(set(xs))) of line 699
RECURSIVE SortedSeq(_)
SortedSeq(S) ==
    IF S = {} THEN <<>>
    ELSE LET m == CHOOSE a \in S : \A b \in S : RLe(a, b)
         IN  <<m>> \o SortedSeq(S \ {m})

\* lines 697-699
ResampleXs(lv, pl, xl, xr) ==
    SortedSeq({X(p) : p \in {q \in SeqToSet(lv.surface) : InInterval(X(q), xl, xr)}}
              \cup {X(p) : p \in {q \in SeqToSet(pl) : InInterval(X(q), xl, xr)}})

\* a faulty variant: the seed elevation is kept, whatever the ground
ResampledZSeedOnly(z_pl, z_mv) == z_pl

\* a faulty variant: the offset is kept from the ground everywhere
ResampledZGroundOnly(z_pl, z_mv) == RSub(z_mv, Z_PHREATIC_OFFSET_MAAIVELD)

\* lines 711-714: the elevation of the resampled point
ResampledZ(z_pl, z_mv) ==
    IF RLt(RSub(z_mv, Z_PHREATIC_OFFSET_MAAIVELD), z_pl)
    THEN RSub(z_mv, Z_PHREATIC_OFFSET_MAAIVELD)
    ELSE z_pl

\* lines 708-714 for one x: the point, or what the line raises
ResamplePoint(lv, pl, x) ==
    LET z_mv == LeveeZAt(lv, x)
        z_pl == z_at(x, pl)
    IN  IF z_pl.tag = "ZeroDivisionError" THEN Raise("ZeroDivisionError", "z_at", "")
        ELSE IF ~IsSome(z_pl) \/ ~IsSome(z_mv) THEN Raise("TypeError", "z_pl", "")
        ELSE Return(<<x, ResampledZ(z_pl.v, z_mv.v)>>)

\* lines 703-718: the final control list before the monotonicity pass
FinalPoints(lv, sl, pl) ==
    LET xl == InnerLimit(sl)
        xr == OuterLimit(lv, sl)
        xs == ResampleXs(lv, pl, xl, xr)
        UpToCrest(p) == RLe(X(p), I(sl.x_binnenkruin))
        Beyond(p) == RLt(xr, X(p))
        rs == [k \in DOMAIN xs |-> ResamplePoint(lv, pl, xs[k])]
        bad == {k \in DOMAIN rs : ~rs[k].ok}
    IN  IF bad # {} THEN rs[Min(bad)]
        ELSE Return(SelectSeq(pl, UpToCrest)
                    \o [k \in DOMAIN rs |-> rs[k].v]
                    \o (IF xr # lv.right THEN SelectSeq(pl, Beyond) ELSE <<>>))

-----------------------------------------------------------------------------
(* Phreatic line: monotonicity pass (src/objects.py:720-723).  No element  *)
(* of the list is the same list object twice while x_binnenkruin is left   *)
(* of the outer limit, so the in-place update is an update by value.       *)

\* a faulty variant: the pass compares with the following point and never lowers
ClampAtNoop(pts, i) == pts

\* lines 722-723 at index i
ClampAt(pts, i) ==
    IF RLt(Z(pts[i - 1]), Z(pts[i]))
    THEN [pts EXCEPT ![i] = <<X(pts[i]), Z(pts[i - 1])>>]
    ELSE pts

RECURSIVE ClampFrom(_, _)
ClampFrom(pts, i) ==
    IF i > Len(pts) THEN pts ELSE ClampFrom(ClampAt(pts, i), i + 1)

Monotone(pts) == ClampFrom(pts, 2)

-----------------------------------------------------------------------------
(* Area accounting (src/objects.py:728-782).  A shapely polygon is a set   *)
(* of unit cells; a mask is a rectangle [x1, x2] x [z1, z2] with integer   *)
(* corners for the integer characteristic points and levels of the model.  *)

Rect(x1, x2, z1, z2) == [x1 |-> x1, x2 |-> x2, z1 |-> z1, z2 |-> z2]

\* lines 731-739
left_subtract(lv, sl) ==
    Rect(Floor(lv.left) - 1, sl.x_buitenteen, lv.bottom - 1, lv.top + 1)

\* lines 740-748
right_subtract(lv, sl) ==
    Rect(sl.x_binnenteen, Floor(lv.right) + 1, lv.bottom - 1, lv.top + 1)

\* lines 749-757
bottom_subtract(lv, pp) ==
    Rect(Floor(lv.left) - 1, Floor(lv.right) + 1, lv.bottom - 1, pp.min_peil)

\* the closed cell <<i, j>> and the closed rectangle share a point
CellTouches(c, m) ==
    c[1] + 1 >= m.x1 /\ c[1] <= m.x2 /\ c[2] + 1 >= m.z1 /\ c[2] <= m.z2

\* the cell <<i, j>> lies in the rectangle
CellInside(c, m) ==
    c[1] >= m.x1 /\ c[1] + 1 <= m.x2 /\ c[2] >= m.z1 /\ c[2] + 1 <= m.z2

\* shapely: pg.intersects(mask), pg.difference(mask), pg.area
Intersects(cells, m) == \E c \in cells : CellTouches(c, m)
Difference(cells, m) == {c \in cells : ~CellInside(c, m)}
Area(cells) == Cardinality(cells)

\* lines 765-766, 767-768, 769-770
Subtract(cells, m) == IF Intersects(cells, m) THEN Difference(cells, m) ELSE cells

\* lines 763-770: the polygon limited to the toes and the polder level
Limited(cells, lv, sl, pp) ==
    Subtract(Subtract(Subtract(cells, left_subtract(lv, sl)),
                      right_subtract(lv, sl)),
             bottom_subtract(lv, pp))

RECURSIVE SumAreas(_, _)
SumAreas(pgs, code) ==
    IF Len(pgs) = 0 THEN 0
    ELSE (IF pgs[1].soilcode = code THEN Area(pgs[1].cells) ELSE 0)
         + SumAreas(Tail(pgs), code)

\* line 486
soilnames == [k \in DOMAIN dam.soils |-> dam.soils[k].name]

\* a faulty variant: only the first polygon of a soil is counted
RawTotalsFirstOnly(lv) ==
    LET First(s) == {k \in DOMAIN lv.soilpolygons : lv.soilpolygons[k].soilcode = s}
    IN  [s \in SeqToSet(soilnames) |->
            IF First(s) = {} THEN 0 ELSE Area(lv.soilpolygons[Min(First(s))].cells)]

\* lines 728, 759-760: the raw totals, a dict keyed by the known soil names
RawTotals(lv) ==
    [s \in SeqToSet(soilnames) |-> SumAreas(lv.soilpolygons, s)]

\* lines 729, 762-772
LimitedTotals(lv, sl, pp) ==
    LET clipped == [k \in DOMAIN lv.soilpolygons |->
                       [lv.soilpolygons[k] EXCEPT !.cells = Limited(@, lv, sl, pp)]]
    IN  [s \in SeqToSet(soilnames) |-> SumAreas(clipped, s)]

\* areas[spg.soilcode] of line 760 raises KeyError for a code that is no key
UnknownCodes(lv) ==
    {k \in DOMAIN lv.soilpolygons : lv.soilpolygons[k].soilcode \notin SeqToSet(soilnames)}

\* f"{v:.2f}": the number in hundredths, rounded half to even
Fmt2(r) ==
    LET q == (r.n * 100) \div r.d
        rem == (r.n * 100) % r.d
    IN  IF 2 * rem > r.d \/ (2 * rem = r.d /\ q % 2 = 1) THEN q + 1 ELSE q

\* a faulty variant: soils without area are left out of the line
AreaRowSkipZero(name, totals) ==
    LET Present(v) == v # 0
    IN  <<name>> \o SelectSeq([k \in DOMAIN soilnames |-> Fmt2(I(totals[soilnames[k]]))], Present)

\* lines 774-780: one line of a table
AreaRow(name, totals) ==
    <<name>> \o [k \in DOMAIN soilnames |-> Fmt2(I(totals[soilnames[k]]))]

\* line 487
Header == <<"id">> \o soilnames

-----------------------------------------------------------------------------
(* The log file of one scenario (src/objects.py:519-592)                   *)

FmtLayers(layers) ==
    [k \in DOMAIN layers |->
        <<Fmt2(I(layers[k].top)), Fmt2(I(layers[k].bottom)), layers[k].soil_name>>]

\* the locals the log reads, in the order the lines read them
LogReads ==
    <<"crest_soilprofile", "polder_soilprofile", "polderpeilen", "toetspeil",
      "stijghoogte", "surfaceline", "slope_layer">>

\* the number of log sections written before the read of LogReads[r]
SectionsBefore == <<1, 2, 3, 4, 5, 7, 8>>

LogSection(k, name, l) ==
    CASE k = 1 -> [sec |-> "soilgeometry2D_name", v |-> <<name>>]
      [] k = 2 -> [sec |-> "GRONDOPBOUW KRUIN", v |-> FmtLayers(l.crest_soilprofile.layers)]
      [] k = 3 -> [sec |-> "GRONDOPBOUW TEEN", v |-> FmtLayers(l.polder_soilprofile.layers)]
      [] k = 4 -> [sec |-> "POLDERPEILEN",
                   v |-> <<Fmt2(I(l.polderpeilen.min_peil)), Fmt2(I(l.polderpeilen.max_peil))>>]
      [] k = 5 -> [sec |-> "TOETSPEIL",
                   v |-> <<Fmt2(I(l.toetspeil.peil)), Fmt2(I(l.toetspeil.verschil))>>]
      [] k = 6 -> [sec |-> "STIJGHOOGTE", v |-> <<Fmt2(I(l.stijghoogte.hoogte))>>]
      [] k = 7 -> [sec |-> "GRONDSOORTEN PARAMETERS", v |-> dam.soils]
      [] k = 8 -> [sec |-> "KARAKTERISTIEKE PUNTEN",
                   v |-> <<Fmt2(I(l.surfaceline.x_buitenteen)),
                           Fmt2(I(l.surfaceline.x_buitenkruin)),
                           Fmt2(I(l.surfaceline.x_binnenkruin)),
                           IF has_berm(l.surfaceline)
                           THEN <<Fmt2(I(l.surfaceline.x_insteek_binnenberm))>>
                           ELSE <<>>,
                           Fmt2(I(l.surfaceline.x_binnenteen))>>
                          \o (IF has_sloot(l.surfaceline)
                              THEN <<Fmt2(I(l.surfaceline.x_insteek_sloot_dijkzijde)),
                                     Fmt2(I(l.surfaceline.x_insteek_sloot_polderzijde))>>
                              ELSE <<>>)]
      [] k = 9 -> [sec |-> "DEKLAAG KLEI", v |-> <<Fmt2(I(l.slope_layer.slope_layer_thickness))>>]

\* the first read of an unassigned local (UnboundLocalError), 0 when all are assigned
FirstUnbound(l) ==
    LET u == {r \in DOMAIN LogReads : l[LogReads[r]] = Unbound}
    IN  IF u = {} THEN 0 ELSE Min(u)

LogFile(name, l) ==
    LET r == FirstUnbound(l)
        n == IF r = 0 THEN 9 ELSE SectionsBefore[r]
    IN  [name |-> name, sections |-> [k \in 1 .. n |-> LogSection(k, name, l)]]

-----------------------------------------------------------------------------
(* generate_stix_files (src/objects.py:481-786), one action per stage of   *)
(* the loop body                                                           *)

combination == dam.combinations[idx]

NoException == [exc |-> "none", what |-> ""]

\* an exception no handler catches ends generate_stix_files
Crash(kind, what) == pc' = "crashed" /\ exception' = [exc |-> kind, what |-> what]

\* lines 484-489: both tables get the header
WriteHeaders ==
    /\ pc = "start"
    /\ area_file' = <<Header>>
    /\ limited_area_file' = <<Header>>
    /\ idx' = 1
    /\ pc' = "get_data"
    /\ UNCHANGED <<dam, exception, loc, lookup_failed, errlog, logs, stix, levee,
                   pl_points, final_pl_points, preclamp, areas, limited_areas, zq>>

\* lines 493-517: the next combination and its try block
GetData ==
    /\ pc = "get_data"
    /\ idx <= Len(dam.combinations)
    /\ LET t == TryBlock(combination, loc)
       IN  /\ loc' = t.loc
           /\ IF IsSome(t.err)
              THEN /\ errlog' = Append(errlog, [name |-> combination.soilgeometry2D_name,
                                                 err |-> t.err.v])
                   /\ lookup_failed' = lookup_failed \cup {idx}
              ELSE UNCHANGED <<errlog, lookup_failed>>
    /\ pc' = "write_log"
    /\ UNCHANGED <<dam, idx, exception, logs, area_file, limited_area_file, stix, levee,
                   pl_points, final_pl_points, preclamp, areas, limited_areas, zq>>

\* lines 519-592: the log; an unassigned local ends the batch
WriteLog ==
    /\ pc = "write_log"
    /\ logs' = Append(logs, LogFile(combination.soilgeometry2D_name, loc))
    /\ IF FirstUnbound(loc) # 0
       THEN Crash("UnboundLocalError", LogReads[FirstUnbound(loc)])
       ELSE pc' = "build_levee" /\ UNCHANGED exception
    /\ UNCHANGED <<dam, idx, loc, lookup_failed, errlog, area_file, limited_area_file,
                   stix, levee, pl_points, final_pl_points, preclamp, areas,
                   limited_areas, zq>>

\* lines 597-633: the geometry of the scenario
BuildLevee ==
    /\ pc = "build_levee"
    /\ LET lv == from_soilprofiles(loc.crest_soilprofile.layers,
                                   loc.polder_soilprofile.layers,
                                   Crosssection(loc.surfaceline),
                                   loc.surfaceline.x_binnenteen, "Zand")
       IN  levee' = IF loc.slope_layer.slope_layer_thickness > 0
                    THEN add_toplayer(lv, loc.surfaceline.x_binnenkruin,
                                      loc.surfaceline.x_binnenteen,
                                      loc.slope_layer.slope_layer_thickness,
                                      "ophoogmateriaal_klei")
                    ELSE lv
    /\ pc' = "seed"
    /\ UNCHANGED <<dam, idx, exception, loc, lookup_failed, errlog, logs, area_file,
                   limited_area_file, stix, pl_points, final_pl_points, preclamp,
                   areas, limited_areas, zq>>

\* lines 635-685: the seed polyline; the raises of lines 643 and 654 are caught nowhere
SeedPoints ==
    /\ pc = "seed"
    /\ LET r == SeedPolyline(levee, loc.surfaceline, loc.toetspeil, loc.polderpeilen)
       IN  IF r.ok
           THEN pl_points' = r.v /\ pc' = "resample" /\ UNCHANGED exception
           ELSE Crash(r.err.exc, r.err.what) /\ UNCHANGED pl_points
    /\ UNCHANGED <<dam, idx, loc, lookup_failed, errlog, logs, area_file,
                   limited_area_file, stix, levee, final_pl_points, preclamp, areas,
                   limited_areas, zq>>

\* lines 687-718: the final control list
Resample ==
    /\ pc = "resample"
    /\ LET r == FinalPoints(levee, loc.surfaceline, pl_points)
       IN  IF r.ok
           THEN /\ final_pl_points' = r.v
                /\ preclamp' = r.v
                /\ pc' = "clamp"
                /\ UNCHANGED exception
           ELSE Crash(r.err.exc, r.err.what) /\ UNCHANGED <<final_pl_points, preclamp>>
    /\ UNCHANGED <<dam, idx, loc, lookup_failed, errlog, logs, area_file,
                   limited_area_file, stix, levee, pl_points, areas, limited_areas, zq>>

\* lines 720-726: the monotonicity pass, then levee.add_phreatic_line
Clamp ==
    /\ pc = "clamp"
    /\ final_pl_points' = Monotone(final_pl_points)
    /\ levee' = [levee EXCEPT !.phreatic_line = Monotone(final_pl_points)]
    /\ pc' = "areas"
    /\ UNCHANGED <<dam, idx, exception, loc, lookup_failed, errlog, logs, area_file,
                   limited_area_file, stix, pl_points, preclamp, areas, limited_areas, zq>>

\* lines 728-784: the totals, one line in each table, the geometry file
Areas ==
    /\ pc = "areas"
    /\ IF UnknownCodes(levee) # {}
       THEN /\ Crash("KeyError", levee.soilpolygons[Min(UnknownCodes(levee))].soilcode)
            /\ UNCHANGED <<idx, area_file, limited_area_file, stix, areas, limited_areas>>
       ELSE /\ areas' = RawTotals(levee)
            /\ limited_areas' = LimitedTotals(levee, loc.surfaceline, loc.polderpeilen)
            /\ area_file' = Append(area_file,
                                   AreaRow(combination.soilgeometry2D_name, RawTotals(levee)))
            /\ limited_area_file' =
                   Append(limited_area_file,
                          AreaRow(combination.soilgeometry2D_name,
                                  LimitedTotals(levee, loc.surfaceline, loc.polderpeilen)))
            /\ stix' = Append(stix, [name |-> combination.soilgeometry2D_name,
                                     levee |-> levee])
            /\ idx' = idx + 1
            /\ pc' = "get_data"
            /\ UNCHANGED exception
    /\ UNCHANGED <<dam, loc, lookup_failed, errlog, logs, levee, pl_points,
                   final_pl_points, preclamp, zq>>

\* line 786: the loop is over
CloseFiles ==
    /\ pc = "get_data"
    /\ idx > Len(dam.combinations)
    /\ pc' = "done"
    /\ UNCHANGED <<dam, idx, exception, loc, lookup_failed, errlog, logs, area_file,
                   limited_area_file, stix, levee, pl_points, final_pl_points, preclamp,
                   areas, limited_areas, zq>>

Next ==
    \/ WriteHeaders
    \/ GetData
    \/ WriteLog
    \/ BuildLevee
    \/ SeedPoints
    \/ Resample
    \/ Clamp
    \/ Areas
    \/ CloseFiles

-----------------------------------------------------------------------------
(* The Record Store as DAMInput.from_folder leaves it (src/objects.py:     *)
(* 183-392).  Characteristic points lie in dike order along the surface    *)
(* line: outer toe < outer crest < inner crest < [berm] < inner toe        *)
(* <= [ditch, dike side] < [ditch, polder side], inside the line's extent. *)

MaxCombos == 2      \* combinations in one batch
MaxX == 5           \* the surface line runs from x = 0 to x = MaxX
MaxZ == 2           \* surface elevations are 0 .. MaxZ
NPts == 3           \* vertices of a surface line
MaxPts == 3         \* points of a polyline handed to z_at
MaxPX == 2          \* their x are 0 .. MaxPX
MaxPZ == 1          \* their elevations are 0 .. MaxPZ

Soil(name) == [name |-> name, yd |-> 14, ys |-> 16, c |-> 2, phi |-> 25]
Layer(top, bottom, soil_name) == [top |-> top, bottom |-> bottom, soil_name |-> soil_name]
SoilProfile(id, layers) == [id |-> id, layers |-> layers]
SurfaceLinePoint(x, z) == [x |-> x, y |-> 0, z |-> z]
SurfaceLine(id, points, chars) ==
    [id |-> id, points |-> points,
     x_buitenteen |-> chars[1], x_buitenkruin |-> chars[2], x_binnenkruin |-> chars[3],
     x_insteek_binnenberm |-> chars[4], x_binnenteen |-> chars[5],
     x_insteek_sloot_dijkzijde |-> chars[6], x_insteek_sloot_polderzijde |-> chars[7]]
SlopeLayer(id, t) == [surfaceline_id |-> id, slope_layer_thickness |-> t]
Location(id, surfaceline_id) == [id |-> id, surfaceline_id |-> surfaceline_id]
PolderPeil(id, max_peil, min_peil) ==
    [location_id |-> id, max_peil |-> max_peil, min_peil |-> min_peil]
Toetspeil(id, peil, verschil) == [location_id |-> id, peil |-> peil, verschil |-> verschil]
Stijghoogte(id, hoogte) == [location_id |-> id, hoogte |-> hoogte]
Combination(crest, toe, sl, name) ==
    [soilprofile_id_crest |-> crest, soilprofile_id_toe |-> toe,
     surfaceline_id |-> sl, soilgeometry2D_name |-> name]

PointsOf(xs, zs) == [k \in DOMAIN xs |-> SurfaceLinePoint(xs[k], zs[k])]

\* soilparameters.csv with and without the top-layer soil
SoilLists ==
    {<<Soil("klei"), Soil("veen"), Soil("Zand"), Soil("ophoogmateriaal_klei"), Soil("leem")>>,
     <<Soil("klei"), Soil("veen"), Soil("Zand"), Soil("leem")>>}

Profiles ==
    <<SoilProfile("P1", <<Layer(1, 0, "klei"), Layer(0, -1, "veen")>>),
      SoilProfile("P2", <<Layer(2, 1, "klei"), Layer(1, -1, "veen")>>),
      SoilProfile("P1", <<Layer(1, -1, "veen")>>)>>

\* a dike without berm and ditch, and a dike with both
DikeA == PointsOf(<<0, 1, 2, 3, 5, 7>>, <<0, 1, 3, 3, 1, 1>>)
CharsA == <<1, 2, 3, X_UNDEFINED, 5, X_UNDEFINED, X_UNDEFINED>>
DikeB == PointsOf(<<0, 1, 2, 3, 4, 5, 6, 7, 8, 9>>, <<0, 1, 3, 3, 2, 2, 1, 1, 0, 1>>)
CharsB == <<1, 2, 3, 4, 6, 7, 9>>

\* S1, S2 resolve; S3 has a design level above the crest; S4 a negative
\* head loss; S5 .. S9 miss the slope layer, the location, the polder
\* levels, the design level, the seepage head
BatchSurfaceLines ==
    <<SurfaceLine("S1", DikeA, CharsA), SurfaceLine("S2", DikeB, CharsB),
      SurfaceLine("S3", DikeA, CharsA), SurfaceLine("S4", DikeB, CharsB),
      SurfaceLine("S5", DikeA, CharsA), SurfaceLine("S6", DikeA, CharsA),
      SurfaceLine("S7", DikeA, CharsA), SurfaceLine("S8", DikeA, CharsA),
      SurfaceLine("S9", DikeA, CharsA)>>

BatchStore(combinations, soils) ==
    [combinations |-> combinations,
     soils |-> soils,
     soilprofiles |-> Profiles,
     surfacelines |-> BatchSurfaceLines,
     slopelayers |-> <<SlopeLayer("S1", 0), SlopeLayer("S2", 1), SlopeLayer("S3", 0),
                       SlopeLayer("S4", 0), SlopeLayer("S6", 0), SlopeLayer("S7", 0),
                       SlopeLayer("S8", 0), SlopeLayer("S9", 0)>>,
     locations |-> <<Location("L1", "S1"), Location("L2", "S2"), Location("L3", "S3"),
                     Location("L4", "S4"), Location("L5", "S5"), Location("L7", "S7"),
                     Location("L8", "S8"), Location("L9", "S9")>>,
     polderpeilen |-> <<PolderPeil("L1", 1, 0), PolderPeil("L2", 2, 1), PolderPeil("L3", 1, 0),
                        PolderPeil("L4", 1, 0), PolderPeil("L5", 1, 0), PolderPeil("L8", 1, 0),
                        PolderPeil("L9", 1, 0)>>,
     toetspeilen |-> <<Toetspeil("L1", 2, 1), Toetspeil("L2", 2, 0), Toetspeil("L3", 4, 1),
                       Toetspeil("L4", 2, -1), Toetspeil("L5", 2, 1), Toetspeil("L7", 2, 1),
                       Toetspeil("L9", 2, 1)>>,
     stijghoogtes |-> <<Stijghoogte("L1", 1), Stijghoogte("L2", 1), Stijghoogte("L3", 1),
                        Stijghoogte("L4", 1), Stijghoogte("L5", 1), Stijghoogte("L7", 1),
                        Stijghoogte("L8", 1)>>]

\* the rows combinationfile.csv may hold: every surface line with resolving
\* profiles, and rows whose crest or toe profile differs or is missing
Rows ==
    {<<"P1", "P1", sl>> : sl \in {"S1", "S2", "S3", "S4", "S5", "S6", "S7", "S8", "S9", "SX"}}
    \cup {<<"P2", "P1", "S1">>, <<"P2", "P1", "S2">>, <<"PX", "P1", "S1">>, <<"P1", "PX", "S1">>}

Names == <<"g1", "g2", "g3", "g4">>

\* combinationfile.csv: up to MaxCombos rows, the output names distinct
CombinationLists == UNION {[1 .. n -> Rows] : n \in 0 .. MaxCombos}

CombinationsOf(ids) ==
    [k \in DOMAIN ids |-> Combination(ids[k][1], ids[k][2], ids[k][3], Names[k])]

NoZq == [x |-> I(0), points |-> <<>>, result |-> None]

\* the state when generate_stix_files is entered
Entered(store) ==
    /\ dam = store
    /\ pc = "start"
    /\ idx = 0
    /\ exception = NoException
    /\ loc = NoLocals
    /\ lookup_failed = {}
    /\ errlog = <<>>
    /\ logs = <<>>
    /\ area_file = <<>>
    /\ limited_area_file = <<>>
    /\ stix = <<>>
    /\ levee = Unbound
    /\ pl_points = <<>>
    /\ final_pl_points = <<>>
    /\ preclamp = <<>>
    /\ areas = <<>>
    /\ limited_areas = <<>>
    /\ zq = NoZq

Init ==
    \E ids \in CombinationLists, soils \in SoilLists :
        Entered(BatchStore(CombinationsOf(ids), soils))

Spec == Init /\ [][Next]_vars

-----------------------------------------------------------------------------
(* One scenario over a family of surface lines, characteristic points and  *)
(* water levels                                                            *)

\* x of the vertices: from 0 to MaxX, strictly increasing
VertexXs ==
    {xs \in [1 .. NPts -> 0 .. MaxX] :
        /\ xs[1] = 0
        /\ xs[NPts] = MaxX
        /\ \A k \in 2 .. NPts : xs[k - 1] < xs[k]}

VertexZs == [1 .. NPts -> 0 .. MaxZ]

Optional(S) == {X_UNDEFINED} \cup S

\* characteristic points in dike order; the outer toe one left of the crest
CharPoints ==
    {<<bk - 1, bk, ik, berm, it, sd, IF sd = X_UNDEFINED THEN X_UNDEFINED ELSE MaxX>> :
        <<bk, ik, berm, it, sd>> \in
            {c \in (1 .. MaxX) \X (1 .. MaxX) \X Optional(1 .. MaxX) \X (1 .. MaxX)
                   \X Optional(1 .. MaxX) :
                /\ c[1] < c[2]
                /\ c[2] < c[4]
                /\ c[3] # X_UNDEFINED => (c[2] < c[3] /\ c[3] < c[4])
                /\ c[5] # X_UNDEFINED => c[4] < c[5]}}

\* (design level, head loss), (polder maximum, minimum), slope layer thickness
DesignLevels == (1 .. MaxZ) \X {0, 1}
PolderLevels == {<<1, 0>>, <<MaxZ + 1, MaxZ>>}

GeomStore(points, chars, tp, pp, thickness, soils) ==
    [combinations |-> <<Combination("P1", "P1", "S1", "g1")>>,
     soils |-> soils,
     soilprofiles |-> <<SoilProfile("P1", <<Layer(1, 0, "klei"), Layer(0, -1, "veen")>>)>>,
     surfacelines |-> <<SurfaceLine("S1", points, chars)>>,
     slopelayers |-> <<SlopeLayer("S1", thickness)>>,
     locations |-> <<Location("L1", "S1")>>,
     polderpeilen |-> <<PolderPeil("L1", pp[1], pp[2])>>,
     toetspeilen |-> <<Toetspeil("L1", tp[1], tp[2])>>,
     stijghoogtes |-> <<Stijghoogte("L1", 1)>>]

InitGeom ==
    \E xs \in VertexXs, zs \in VertexZs, chars \in CharPoints,
       tp \in DesignLevels, pp \in PolderLevels :
        Entered(GeomStore(PointsOf(xs, zs), chars, tp, pp, 0,
                          <<Soil("klei"), Soil("veen"), Soil("Zand"), Soil("leem")>>))

SpecGeom == InitGeom /\ [][Next]_vars

-----------------------------------------------------------------------------
(* z_at on its own: one call on a polyline that need not be ordered        *)

Polylines ==
    UNION {[1 .. n -> {<<I(x), I(z)>> : x \in 0 .. MaxPX, z \in 0 .. MaxPZ}] : n \in 2 .. MaxPts}

\* the queries: the halves from -1/2 to MaxPX + 1/2
Queries == {Rat(k, 2) : k \in -1 .. (2 * MaxPX + 1)}

InitZAt ==
    /\ \E points \in Polylines, x \in Queries :
           zq = [x |-> x, points |-> points, result |-> None]
    /\ pc = "z_at"
    /\ dam = BatchStore(<<>>, <<>>)
    /\ idx = 0
    /\ exception = NoException
    /\ loc = NoLocals
    /\ lookup_failed = {}
    /\ errlog = <<>>
    /\ logs = <<>>
    /\ area_file = <<>>
    /\ limited_area_file = <<>>
    /\ stix = <<>>
    /\ levee = Unbound
    /\ pl_points = <<>>
    /\ final_pl_points = <<>>
    /\ preclamp = <<>>
    /\ areas = <<>>
    /\ limited_areas = <<>>

ZAtCall ==
    /\ pc = "z_at"
    /\ zq' = [zq EXCEPT !.result = z_at(zq.x, zq.points)]
    /\ pc' = "z_at_done"
    /\ UNCHANGED <<dam, idx, exception, loc, lookup_failed, errlog, logs, area_file,
                   limited_area_file, stix, levee, pl_points, final_pl_points, preclamp,
                   areas, limited_areas>>

NextZAt == ZAtCall

SpecZAt == InitZAt /\ [][NextZAt]_vars

-----------------------------------------------------------------------------
(* Properties                                                              *)

\* r is the elevation at x on the straight line through p1 and p2
OnLine(r, x, p1, p2) ==
    RMul(RSub(r, Z(p1)), RSub(X(p2), X(p1))) = RMul(RSub(x, X(p1)), RSub(Z(p2), Z(p1)))

StrictlyBetween(x, points, i) == RLt(X(points[i - 1]), x) /\ RLt(x, X(points[i]))

Outside(x, points) == RLt(x, X(points[1])) \/ RLt(X(points[Len(points)]), x)

OrderedInX(points) == \A i \in 2 .. Len(points) : RLe(X(points[i - 1]), X(points[i]))

ZAtInterpolates ==
    /\ \A i \in 2 .. Len(zq.points) :
           StrictlyBetween(zq.x, zq.points, i) =>
               /\ IsSome(zq.result)
               /\ OnLine(zq.result.v, zq.x, zq.points[i - 1], zq.points[i])
    /\ Outside(zq.x, zq.points) => zq.result = None

\* C8 as stated: for every polyline, z_at returns the interpolation between
\* the two consecutive samples x lies strictly between, and None for an x
\* below the first or above the last sample
C8_ZAtAnyPolyline == pc = "z_at_done" => ZAtInterpolates

\* C8 amended: the same, for every polyline whose samples are in
\* non-decreasing x order
C8_ZAtOrderedPolyline ==
    (pc = "z_at_done" /\ OrderedInX(zq.points)) => ZAtInterpolates

\* an ordered polyline queried strictly inside its second segment, off the samples' elevations
C8_Witness ==
    /\ pc = "z_at_done"
    /\ OrderedInX(zq.points)
    /\ Len(zq.points) = 3
    /\ StrictlyBetween(zq.x, zq.points, 3)
    /\ IsSome(zq.result)
    /\ zq.result.v = Rat(1, 2)

NonIncreasing(pts) == \A i \in 2 .. Len(pts) : RLe(Z(pts[i]), Z(pts[i - 1]))

\* the scenario's phreatic line has been attached (line 726)
Attached == pc = "areas"

\* C1: every phreatic line attached to a levee, and every one written to a
\* geometry file, has non-increasing elevation over every consecutive pair
C1_Monotone ==
    /\ Attached => NonIncreasing(levee.phreatic_line)
    /\ \A k \in DOMAIN stix : NonIncreasing(stix[k].levee.phreatic_line)

\* a line is attached that the monotonicity pass had to lower somewhere
C1_Witness ==
    /\ Attached
    /\ Len(levee.phreatic_line) >= 6
    /\ \E i \in 2 .. Len(preclamp) : RLt(Z(preclamp[i - 1]), Z(preclamp[i]))

InResampleInterval(x) ==
    InInterval(x, InnerLimit(loc.surfaceline), OuterLimit(levee, loc.surfaceline))

Ground(x) == LeveeZAt(levee, x).v

\* C2: in the attached line, every point with x in (inner_limit,
\* outer_limit] lies on or below the ground at its x
C2_GroundClearance ==
    Attached =>
        \A i \in DOMAIN levee.phreatic_line :
            InResampleInterval(X(levee.phreatic_line[i])) =>
                RLe(Z(levee.phreatic_line[i]), Ground(X(levee.phreatic_line[i])))

\* an attached line with a point of the interval where the seed polyline runs above the ground
C2_Witness ==
    /\ Attached
    /\ \E i \in DOMAIN levee.phreatic_line :
           /\ InResampleInterval(X(levee.phreatic_line[i]))
           /\ RLt(Ground(X(levee.phreatic_line[i])),
                  z_at(X(levee.phreatic_line[i]), pl_points).v)

SeedAt(x) == z_at(x, pl_points).v

\* C9: before the monotonicity pass, a point with x in (inner_limit,
\* outer_limit] has elevation min(seed elevation at x, ground at x - 0.1),
\* and it has the seed's elevation exactly when that is <= ground - 0.1
C9_ResampledElevation ==
    pc = "clamp" =>
        \A i \in DOMAIN preclamp :
            InResampleInterval(X(preclamp[i])) =>
                LET x == X(preclamp[i])
                    below == RSub(Ground(x), Rat(1, 10))
                IN  /\ Z(preclamp[i]) = RMin(SeedAt(x), below)
                    /\ (Z(preclamp[i]) = SeedAt(x)) <=> RLe(SeedAt(x), below)

\* a resampled list with a point taken from the ground and a point kept from the seed
C9_Witness ==
    /\ pc = "clamp"
    /\ \E i \in DOMAIN preclamp :
           /\ InResampleInterval(X(preclamp[i]))
           /\ RLt(RSub(Ground(X(preclamp[i])), Rat(1, 10)), SeedAt(X(preclamp[i])))
    /\ \E i \in DOMAIN preclamp :
           /\ InResampleInterval(X(preclamp[i]))
           /\ RLt(SeedAt(X(preclamp[i])), RSub(Ground(X(preclamp[i])), Rat(1, 10)))

\* the seed polyline as the claim lists it, from the scenario's records
ExpectedSeed ==
    LET sl == loc.surfaceline
        design_level == I(loc.toetspeil.peil)
        polder_min == I(loc.polderpeilen.min_peil)
        crossings == get_surface_intersections(levee, <<levee.left, design_level>>,
                                               <<I(sl.x_buitenkruin), design_level>>)
        first == CHOOSE c \in SeqToSet(crossings) :
                     \A d \in SeqToSet(crossings) : RLe(X(c), X(d))
        below(x) == RSub(Ground(I(x)), Rat(1, 10))
    IN  <<<<levee.left, design_level>>,
          <<X(first), design_level>>,
          <<I(sl.x_buitenkruin), RSub(design_level, I(0))>>,
          <<I(sl.x_binnenkruin), RSub(design_level, I(loc.toetspeil.verschil))>>>>
        \o (IF sl.x_insteek_binnenberm # X_UNDEFINED
            THEN <<<<I(sl.x_insteek_binnenberm), below(sl.x_insteek_binnenberm)>>>>
            ELSE <<>>)
        \o <<<<I(sl.x_binnenteen), below(sl.x_binnenteen)>>>>
        \o (IF sl.x_insteek_sloot_dijkzijde # X_UNDEFINED
            THEN <<<<I(sl.x_insteek_sloot_dijkzijde), polder_min>>, <<levee.right, polder_min>>>>
            ELSE <<<<levee.right, RSub(Ground(levee.right), Rat(1, 10))>>>>)

Ended == pc \in {"done", "crashed"}

\* the scenario at idx failed on line 643 (no crossing) or line 654 (P3 below P4)
GeometricFailure ==
    pc = "crashed" /\ exception.exc = "ValueError" /\ exception.what \in {"snijpunt", "p3p4"}

\* combination k has got its log, its geometry file and a line in each table
Processed(k) ==
    /\ \E j \in DOMAIN logs : logs[j].name = dam.combinations[k].soilgeometry2D_name
    /\ \E j \in DOMAIN stix : stix[j].name = dam.combinations[k].soilgeometry2D_name
    /\ \E j \in DOMAIN area_file : area_file[j][1] = dam.combinations[k].soilgeometry2D_name
    /\ \E j \in DOMAIN limited_area_file :
           limited_area_file[j][1] = dam.combinations[k].soilgeometry2D_name

\* C3: a geometric precondition violation in one scenario aborts that
\* scenario only: every later combination is still processed
C3_LaterScenariosProcessed ==
    GeometricFailure => \A k \in (idx + 1) .. Len(dam.combinations) : Processed(k)

\* the records combination c resolves to on its own, whatever came before
OwnRecords(c) == TryBlock(c, NoLocals).loc

\* C4: the log written for a combination is the log of the records that
\* combination resolves to itself; nothing an earlier scenario resolved is in it
C4_NoEarlierScenarioData ==
    \A k \in DOMAIN logs :
        logs[k] = LogFile(dam.combinations[k].soilgeometry2D_name,
                          OwnRecords(dam.combinations[k]))

\* C5: a scenario whose lookup failed (and was logged) does not stop the batch
C5_LookupFailureContinues ==
    \A k \in lookup_failed : ~(pc = "crashed" /\ idx = k)

SoilList == [k \in DOMAIN dam.soils |-> dam.soils[k].name]

HasPolygon(lv, code) == \E j \in DOMAIN lv.soilpolygons : lv.soilpolygons[j].soilcode = code

\* line k + 1 of a table belongs to combination k: its name, then one value
\* per soil of the soil list, 0 for a soil without polygon in the scenario
RowOfCombination(table, k) ==
    /\ table[k + 1][1] = dam.combinations[k].soilgeometry2D_name
    /\ Len(table[k + 1]) = 1 + Len(SoilList)
    /\ \A j \in DOMAIN SoilList :
           ~HasPolygon(stix[k].levee, SoilList[j]) => table[k + 1][j + 1] = 0

\* C6: the two tables always have the same number of lines; when
\* generate_stix_files returns they hold the header and one line per
\* combination in input order, each with one value per soil of the soil list
C6_AreaTables ==
    /\ Len(area_file) = Len(limited_area_file)
    /\ pc = "done" =>
           /\ Len(area_file) = 1 + Len(dam.combinations)
           /\ area_file[1] = <<"id">> \o SoilList
           /\ limited_area_file[1] = <<"id">> \o SoilList
           /\ \A k \in DOMAIN dam.combinations :
                  RowOfCombination(area_file, k) /\ RowOfCombination(limited_area_file, k)

\* a batch of two combinations has returned; a soil without polygon stands next to one with area
C6_Witness ==
    /\ pc = "done"
    /\ Len(dam.combinations) = 2
    /\ \E j \in DOMAIN SoilList :
           ~HasPolygon(stix[2].levee, SoilList[j]) /\ area_file[3][j + 1] = 0
    /\ \E j \in DOMAIN SoilList : area_file[3][j + 1] > 0

\* the totals of the scenario have been computed and written (line 782)
Accounted == pc = "get_data" /\ idx > 1

CellsOfSoil(lv, code) ==
    UNION {lv.soilpolygons[j].cells :
               j \in {i \in DOMAIN lv.soilpolygons : lv.soilpolygons[i].soilcode = code}}

\* the part of the soil's polygons outside the three masks: between the
\* toes and above the minimum polder level
InsideFootprint(c) ==
    /\ c[1] >= loc.surfaceline.x_buitenteen
    /\ c[1] + 1 <= loc.surfaceline.x_binnenteen
    /\ c[2] >= loc.polderpeilen.min_peil

TouchesNoMask(cells) ==
    /\ ~Intersects(cells, left_subtract(levee, loc.surfaceline))
    /\ ~Intersects(cells, right_subtract(levee, loc.surfaceline))
    /\ ~Intersects(cells, bottom_subtract(levee, loc.polderpeilen))

\* C7: for every soil code the raw total is the area of the polygons with
\* that code, the limited total is at most the raw total, and the two are
\* equal when no polygon with that code intersects any of the three masks
C7_AreaConservation ==
    Accounted =>
        \A s \in DOMAIN areas :
            /\ areas[s] = Cardinality(CellsOfSoil(levee, s))
            /\ limited_areas[s] <= areas[s]
            /\ limited_areas[s] = Cardinality({c \in CellsOfSoil(levee, s) : InsideFootprint(c)})
            /\ TouchesNoMask(CellsOfSoil(levee, s)) => limited_areas[s] = areas[s]

\* totals with a soil in two polygons, a soil that no mask touches and a soil that a mask cuts
C7_Witness ==
    /\ Accounted
    /\ \E s \in DOMAIN areas :
           Cardinality({j \in DOMAIN levee.soilpolygons : levee.soilpolygons[j].soilcode = s}) >= 2
    /\ \E s \in DOMAIN areas :
           areas[s] > 0 /\ TouchesNoMask(CellsOfSoil(levee, s)) /\ limited_areas[s] = areas[s]
    /\ \E s \in DOMAIN areas : 0 < limited_areas[s] /\ limited_areas[s] < areas[s]

-----------------------------------------------------------------------------
(* The guard on P3 and P4 (src/objects.py:648-656)                         *)

\* the scenario at idx has passed the guard of lines 652-656
PastGuard == pc \in {"resample", "clamp", "areas"}

\* the scenario at idx has got a geometry file or a line in a table
HasOutput(k) ==
    \/ \E j \in DOMAIN stix : stix[j].name = dam.combinations[k].soilgeometry2D_name
    \/ \E j \in DOMAIN area_file : area_file[j][1] = dam.combinations[k].soilgeometry2D_name
    \/ \E j \in DOMAIN limited_area_file :
           limited_area_file[j][1] = dam.combinations[k].soilgeometry2D_name

-----------------------------------------------------------------------------
(* The lookups of the Record Store (src/objects.py:427-479)                *)

\* r is the first record of the list whose key equals the id
IsFirst(records, key, id, r) ==
    \E i \in DOMAIN records :
        /\ records[i] = r
        /\ records[i][key] = id
        /\ \A j \in 1 .. (i - 1) : records[j][key] # id

\* the location the lookups of combination c go through
LocationIds(c) ==
    {dam.locations[i].id : i \in {j \in DOMAIN dam.locations :
        /\ dam.locations[j].surfaceline_id = c.surfaceline_id
        /\ \A h \in 1 .. (j - 1) : dam.locations[h].surfaceline_id # c.surfaceline_id}}

\* the ids combination c asks a lookup of the given kind for
Requested(c, what) ==
    CASE what = "grondopbouw" -> {c.soilprofile_id_crest, c.soilprofile_id_toe}
      [] what \in {"dwarsprofiel", "slopelayer", "location"} -> {c.surfaceline_id}
      [] OTHER -> LocationIds(c)

\* the records of a kind of lookup and the field that is their key
Searched(what) ==
    CASE what = "grondopbouw" -> [records |-> dam.soilprofiles, key |-> "id"]
      [] what = "dwarsprofiel" -> [records |-> dam.surfacelines, key |-> "id"]
      [] what = "slopelayer" -> [records |-> dam.slopelayers, key |-> "surfaceline_id"]
      [] what = "location" -> [records |-> dam.locations, key |-> "surfaceline_id"]
      [] what = "polderpeilen" -> [records |-> dam.polderpeilen, key |-> "location_id"]
      [] what = "toetspeilen" -> [records |-> dam.toetspeilen, key |-> "location_id"]
      [] what = "stijghoogte" -> [records |-> dam.stijghoogtes, key |-> "location_id"]

\* the logged error names an id that the combination asked for and that no
\* record of that kind has
NamesMissingId(e) ==
    \E k \in DOMAIN dam.combinations :
        /\ dam.combinations[k].soilgeometry2D_name = e.name
        /\ e.err.exc = "ValueError"
        /\ e.err.id \in Requested(dam.combinations[k], e.err.what)
        /\ \A i \in DOMAIN Searched(e.err.what).records :
               Searched(e.err.what).records[i][Searched(e.err.what).key] # e.err.id

\* the try block of the scenario at idx has assigned all eight locals
Resolved == pc = "write_log" /\ idx \notin lookup_failed

\* every local holds the first record with the requested key
FirstRecords ==
    /\ IsFirst(dam.soilprofiles, "id", combination.soilprofile_id_crest, loc.crest_soilprofile)
    /\ IsFirst(dam.soilprofiles, "id", combination.soilprofile_id_toe, loc.polder_soilprofile)
    /\ IsFirst(dam.surfacelines, "id", combination.surfaceline_id, loc.surfaceline)
    /\ IsFirst(dam.slopelayers, "surfaceline_id", combination.surfaceline_id, loc.slope_layer)
    /\ IsFirst(dam.locations, "surfaceline_id", combination.surfaceline_id, loc.location)
    /\ IsFirst(dam.polderpeilen, "location_id", loc.location.id, loc.polderpeilen)
    /\ IsFirst(dam.toetspeilen, "location_id", loc.location.id, loc.toetspeil)
    /\ IsFirst(dam.stijghoogtes, "location_id", loc.location.id, loc.stijghoogte)

\* C12: every lookup returns the first record whose key equals the requested
\* id, and the error of a failed lookup names the kind of lookup and the
\* requested, missing id
C12_LookupReturnsFirstOrNamesId ==
    /\ Resolved => FirstRecords
    /\ \A j \in DOMAIN errlog : NamesMissingId(errlog[j])

-----------------------------------------------------------------------------
(* z_at on sample boundaries (src/objects.py:34-42)                        *)

\* x lies in the inclusive x-range of the segment ending at index i
InSegment(x, points, i) == RLe(X(points[i - 1]), x) /\ RLe(x, X(points[i]))

\* segment i is the first one whose inclusive x-range contains x
FirstSegment(x, points, i) ==
    InSegment(x, points, i) /\ \A j \in 2 .. (i - 1) : ~InSegment(x, points, j)

Covered(x, points) == RLe(X(points[1]), x) /\ RLe(x, X(points[Len(points)]))

\* C13: on a polyline in non-decreasing x order with at least two samples,
\* for every x from the first to the last sample's x (sample x and repeated
\* x included) z_at raises nothing and returns the value on the first
\* segment whose inclusive x-range contains x
C13_ZAtOnBoundaries ==
    (/\ pc = "z_at_done"
     /\ OrderedInX(zq.points)
     /\ Len(zq.points) >= 2
     /\ Covered(zq.x, zq.points)) =>
        /\ IsSome(zq.result)
        /\ \E i \in 2 .. Len(zq.points) :
               /\ FirstSegment(zq.x, zq.points, i)
               /\ OnLine(zq.result.v, zq.x, zq.points[i - 1], zq.points[i])

-----------------------------------------------------------------------------
(* The x values of the final control list (src/objects.py:684-723)         *)

XsOf(pts) == {X(pts[k]) : k \in DOMAIN pts}

\* C14: every seed point has a point with the same x in the final control
\* list that is attached to the levee, with and without berm and ditch
C14_NoSeedPointLost ==
    Attached => XsOf(pl_points) \subseteq XsOf(levee.phreatic_line)

StrictlyIncreasingInX(pts) == \A i \in 2 .. Len(pts) : RLt(X(pts[i - 1]), X(pts[i]))

\* every vertex of the surface lies between the levee's left and right bound
SurfaceWithinBounds ==
    \A k \in DOMAIN levee.surface :
        RLe(levee.left, X(levee.surface[k])) /\ RLe(X(levee.surface[k]), levee.right)

\* C15: when the seed polyline is strictly increasing in x and the surface
\* vertices lie within the levee's bounds, the attached control list is
\* strictly increasing in x, and the monotonicity pass has changed
\* elevations only: the list has the length and the x values it had before
C15_StrictlyIncreasingX ==
    (Attached /\ StrictlyIncreasingInX(pl_points) /\ SurfaceWithinBounds) =>
        /\ StrictlyIncreasingInX(levee.phreatic_line)
        /\ Len(levee.phreatic_line) = Len(preclamp)
        /\ \A k \in DOMAIN preclamp : X(levee.phreatic_line[k]) = X(preclamp[k])

\* a strictly increasing seed polyline with a berm or a ditch whose final
\* list the monotonicity pass has lowered somewhere
C15_Witness ==
    /\ Attached
    /\ StrictlyIncreasingInX(pl_points)
    /\ SurfaceWithinBounds
    /\ Len(pl_points) >= 7
    /\ levee.phreatic_line # preclamp

-----------------------------------------------------------------------------
(* Area accounting over all polygons (src/objects.py:728-772)              *)

RECURSIVE SeqSum(_)
SeqSum(q) == IF q = <<>> THEN 0 ELSE q[1] + SeqSum(Tail(q))

\* the area of all soil polygons of the levee
TotalPolygonArea(lv) ==
    SeqSum([k \in DOMAIN lv.soilpolygons |-> Cardinality(lv.soilpolygons[k].cells)])

\* the accounting of the scenario at idx stopped on a soil code that is no
\* key of the totals (line 760)
AccountingFailed == pc = "crashed" /\ exception.exc = "KeyError"

\* C16: the area accounting completes for every set of soil polygons and
\* the raw totals over the known soil codes add up to the area of all soil
\* polygons of the scenario, also with a polygon whose soil code is not in
\* the soil list
C16_EveryPolygonAccounted ==
    /\ ~AccountingFailed
    /\ Accounted =>
           SeqSum([k \in DOMAIN SoilList |-> areas[SoilList[k]]]) = TotalPolygonArea(levee)

====
